---- MODULE Spec2Model ----
(***************************************************************************)
(* Session and token lifecycle of mediawiki.js.                            *)
(*                                                                         *)
(* The model covers the API class (src/src/API.js: the cookie jar, the     *)
(* endpoint, the cached csrf token, and the dispatcher #mw with its        *)
(* badtoken refresh and replay) and the facade MediaWikiJS                 *)
(* (src/src/index.js: getToken, the token-requiring write operations and   *)
(* logout).                                                                *)
(*                                                                         *)
(* JavaScript runs a handler to its next await without interruption, so    *)
(* one action of the model is the code between two awaits: the start of a  *)
(* call up to the HTTP request it sends, or the handling of one HTTP       *)
(* response up to the next request or to the settlement of the promise.    *)
(* Several calls may be in flight on one instance; each member of Callers  *)
(* runs one call at a time.  The backend is the environment: it answers    *)
(* every request with one of the shapes the code distinguishes.            *)
(***************************************************************************)
EXTENDS Naturals, Sequences, FiniteSets, TLC

\* ------------------------------------------------------------------------
\* Bounds
\* ------------------------------------------------------------------------

\* Longest per-call request history that is recorded; later requests of the
\* same call are still sent but no longer appended.
MaxLog == 5

\* Number of distinct token values the backend can issue for one endpoint.
NumSerials == 2

\* Concurrent callers of one client instance.
Callers == {"c1"}

\* Wikis the client can be pointed at: <<server, script path>>.
Wikis == {<<"wikiA", "/w">>, <<"wikiB", "/wiki">>}
Servers == {w[1] : w \in Wikis}
Paths == {w[2] : w \in Wikis}

\* ------------------------------------------------------------------------
\* Values
\* ------------------------------------------------------------------------

\* A token value.  kind "tok" is a value issued by the backend of endpoint
\* (server, path); "unset" is the sentinel '+\\'; "absent" is JavaScript's
\* undefined; "none" means the request has no token parameter at all.
Tok(s, p, n) == [kind |-> "tok", server |-> s, path |-> p, n |-> n]

Unset == [kind |-> "unset", server |-> "-", path |-> "-", n |-> 0]

Absent == [kind |-> "absent", server |-> "-", path |-> "-", n |-> 0]

NoToken == [kind |-> "none", server |-> "-", path |-> "-", n |-> 0]

\* action parameter of each token-requiring write operation of the facade
WriteAction(o) ==
    CASE o \in {"edit", "prepend", "append", "undo"} -> "edit"
      [] o = "delete" -> "delete"
      [] o = "restore" -> "undelete"
      [] o = "protect" -> "protect"
      [] o = "block" -> "block"
      [] o = "unblock" -> "unblock"
      [] o = "move" -> "move"
      [] o = "email" -> "emailuser"

WriteOps == {"edit", "prepend", "append", "undo", "delete", "restore",
             "protect", "block", "unblock", "move", "email"}

NoReq == [type |-> "none", server |-> "-", path |-> "-", method |-> "-",
          action |-> "-", token |-> NoToken, session |-> FALSE,
          format |-> "-", formatversion |-> "-"]

NoCall == [kind |-> "none", op |-> "-", action |-> "-", method |-> "-",
           csrf |-> FALSE, ptoken |-> NoToken]

NoResult == [type |-> "none", class |-> "-", code |-> "-", info |-> "-",
             attempt |-> 0]

\* Arguments of a facade operation that are not looked at.
NoArgs == [given |-> FALSE]

\* No parameters built yet.
NoForm == [action |-> "-"]

NoParams == [args |-> NoArgs, form |-> NoForm]

VARIABLES
    server,     \* API.#server
    path,       \* API.#path
    mwToken,    \* API.#mwToken
    jar,        \* API.#jar: the servers a cookie is stored for
    facadeJar,  \* MediaWikiJS.jar
    pc,         \* per caller: where its call is suspended
    call,       \* per caller: the arguments of the running call
    req,        \* per caller: the HTTP request in flight
    result,     \* per caller: how the call's promise settled
    log,        \* per caller: the requests the call has sent, in order
    obtained,   \* per caller: the token the latest retrieval returned
    lastOp,     \* the synchronous operation that ran last, if any
    cache,      \* MediaWikiJS.cache
    api,        \* the class of MediaWikiJS.api
    used,       \* the cookie jars handed to got, per kind of request
    params      \* per caller: the arguments of the facade operation and the
                \* parameters it hands to the API object

vars == <<server, path, mwToken, jar, facadeJar, pc, call, req, result, log,
          obtained, lastOp, cache, api, used, params>>

\* ------------------------------------------------------------------------
\* Helpers
\* ------------------------------------------------------------------------

\* History of a call: its first MaxLog requests, followed by the marker
\* "more" when it has sent further ones.
Logged(l, e) ==
    IF Len(l) < MaxLog THEN Append(l, e)
    ELSE IF Len(l) = MaxLog THEN Append(l, "more")
    ELSE l

RECURSIVE CountOf(_, _)
CountOf(l, e) ==
    IF l = <<>> THEN 0
    ELSE (IF Head(l) = e THEN 1 ELSE 0) + CountOf(Tail(l), e)

Attempts(c) == CountOf(log[c], "action")
Refreshes(c) == CountOf(log[c], "refresh")
Retrievals(c) == CountOf(log[c], "getToken")

\* The history holds every request the call has sent.
Complete(c) == CountOf(log[c], "more") = 0

\* The requests of the API dispatch of a call: for a write operation, what
\* follows the retrieval of getToken.
DispatchLog(c) ==
    IF log[c] # <<>> /\ Head(log[c]) = "getToken" THEN Tail(log[c]) ELSE log[c]

NoSyncOp == [name |-> "none", server |-> "-", path |-> "-",
             hadCookies |-> FALSE, hadToken |-> FALSE]

\* ------------------------------------------------------------------------
\* The backend (environment)
\* ------------------------------------------------------------------------

\* Upstream error envelopes {error: {code, info}}.
Info(code) ==
    IF code = "badtoken" THEN "Invalid CSRF token." ELSE "Permission denied."

Resp(k, code, t, ck) == [kind |-> k, code |-> code, token |-> t, cookie |-> ck]

\* Answers every request can get: the HTTP call is rejected, the response
\* has no body, or the body is an error envelope other than badtoken.
CommonResponses ==
    {Resp(k, "-", NoToken, ck) : k \in {"reject", "nobody"}, ck \in BOOLEAN}
    \cup {Resp("error", "permissiondenied", NoToken, ck) : ck \in BOOLEAN}

\* Token values the backend of the request's endpoint can hand out: one of
\* its own tokens, or '+\\', which is what a wiki returns to an anonymous
\* session.
Issued(r) == {Tok(r.server, r.path, n) : n \in 1..NumSerials} \cup {Unset}

\* Answers to an action request.  badtoken is the answer to a token that the
\* backend does not accept, so only a request that carries a token parameter
\* can get it.
ActionResponses(r) ==
    CommonResponses
    \cup {Resp("ok", "-", NoToken, ck) : ck \in BOOLEAN}
    \cup (IF r.token.kind # "none"
          THEN {Resp("error", "badtoken", NoToken, ck) : ck \in BOOLEAN}
          ELSE {})

\* Answers to query meta=tokens type=csrf: a body with query.tokens.csrftoken
\* or (legacy backend) a body without it.
TokenResponses(r) ==
    CommonResponses
    \cup {Resp("tokens", "-", t, ck) : t \in Issued(r), ck \in BOOLEAN}
    \cup {Resp("notokens", "-", NoToken, ck) : ck \in BOOLEAN}

\* Answers to query prop=info intoken=edit: a page entry with an edittoken, a
\* page entry without one, or a body without query.pages.
LegacyResponses(r) ==
    CommonResponses
    \cup {Resp("pages", "-", t, ck) : t \in Issued(r), ck \in BOOLEAN}
    \cup {Resp("pagesNoToken", "-", NoToken, ck) : ck \in BOOLEAN}
    \cup {Resp("noPages", "-", NoToken, ck) : ck \in BOOLEAN}

\* ------------------------------------------------------------------------
\* API (src/src/API.js)
\* ------------------------------------------------------------------------

\* #mw, lines 36-42: the caller's parameters are spread into the payload and
\* the cached token overwrites the token parameter when csrf is set.
PayloadToken(cl, cached) == IF cl.csrf THEN cached ELSE cl.ptoken

\* The format parameters among the parameters the caller supplied, if any.
Supplied(cl) == [k \in DOMAIN cl \cap {"format", "formatversion"} |-> cl[k]]

\* A payload in which the parameters of the caller come last.
MwPayload_CallerWins(ps) == ps @@ [format |-> "json", formatversion |-> "2"]

\* #mw, lines 36-40: format and formatversion come after the spread of the
\* caller's parameters.
MwPayload(ps) == [format |-> "json", formatversion |-> "2"] @@ ps

\* The session cookies that a successful login to server s sets.
SessionCookie(s) == IF s = "wikiA" THEN "session@wikiA" ELSE "session@wikiB"

\* #mw, lines 30-44: the request that is sent, to the endpoint of the moment,
\* with the session cookies that the jar j holds for that server.
MwRequest(type, cl, cached, s, p, j) ==
    [type |-> type, server |-> s, path |-> p, method |-> cl.method,
     action |-> cl.action, token |-> PayloadToken(cl, cached),
     session |-> SessionCookie(s) \in j,
     format |-> MwPayload(Supplied(cl)).format,
     formatversion |-> MwPayload(Supplied(cl)).formatversion]

\* The jar object that is passed to got as cookieJar is recorded for the
\* kind of request (wiki API or discussion service) that it is passed with.
UseStore(kind, store) == [used EXCEPT ![kind] = @ \cup {store}]

\* The parameters of this.get({action:'query', meta:'tokens', type:'csrf'})
\* and of the legacy retrieval: no token parameter, no csrf flag.
RetrievalCall(a) ==
    [kind |-> "api", op |-> "-", action |-> a, method |-> "get",
     csrf |-> FALSE, ptoken |-> NoToken]

\* got stores the cookies of a response in the jar it was given.
StoreCookies(j, r, resp) == IF resp.cookie THEN j \cup {r.server} ELSE j

Failure(class, code, info) ==
    [type |-> "error", class |-> class, code |-> code, info |-> info,
     attempt |-> 0]

\* #mw without the throw of line 73: an error envelope is not an exception.
MwThrows_EnvelopeIgnored(resp) == resp.kind \in {"reject", "nobody"}

\* #mw, lines 44-49 and 73: the responses that make #mw throw without a
\* refresh.
MwThrows(resp) ==
    \/ resp.kind \in {"reject", "nobody"}
    \/ resp.kind = "error" /\ resp.code # "badtoken"

MwError(resp) ==
    CASE resp.kind = "reject" -> Failure("RequestError", "-", "-")
      [] resp.kind = "nobody" ->
            Failure("MediaWikiJSError", "MEDIAWIKI_ERROR",
                    "Request did not return a body")
      [] OTHER -> Failure("MediaWikiJSError", "MEDIAWIKI_ERROR", Info(resp.code))

\* #mw, line 51: the response that starts a refresh.
IsBadToken(resp) == resp.kind = "error" /\ resp.code = "badtoken"

\* The body that answered the first attempt is returned whatever attempt
\* succeeded.
BodyResult_FirstAttempt(n) ==
    [type |-> "body", class |-> "-", code |-> "-", info |-> "-", attempt |-> 1]

\* #mw, line 75: the body is returned; attempt is the ordinal of the action
\* request whose response it is.
BodyResult(n) ==
    [type |-> "body", class |-> "-", code |-> "-", info |-> "-", attempt |-> n]

\* logout that leaves the cached token, or the cookies, in place.
LogoutToken_Kept == mwToken

LogoutJar_Kept == jar

\* logout, lines 79-80.
LogoutToken == Unset

LogoutJar == {}

\* ------------------------------------------------------------------------
\* Facade (src/src/index.js)
\* ------------------------------------------------------------------------

\* getToken, lines 193-196: the responses getToken accepts.
GetTokenAccepts(resp) ==
    resp.kind = "tokens" /\ resp.token.kind \notin {"absent", "none", "unset"}

\* JavaScript's undefined as the value of an argument that was not passed.
Undefined == "undefined"

\* A destructuring default: { v = d }.
Default(v, d) == IF v = Undefined THEN d ELSE v

\* Truthiness of an argument, and v || d.
Truthy(v) == v \notin {Undefined, "false", ""}

Or(v, d) == IF Truthy(v) THEN v ELSE d

\* Array.prototype.join over the texts of the entries; a text is the
\* sequence of its pieces.
RECURSIVE Join(_, _)
Join(texts, sep) ==
    IF texts = <<>> THEN <<>>
    ELSE IF Len(texts) = 1 THEN texts[1]
    ELSE texts[1] \o <<sep>> \o Join(Tail(texts), sep)

\* String.prototype.startsWith for a prefix that is one piece.
StartsWith(text, prefix) == text # <<>> /\ Head(text) = prefix

\* edit / prepend / append without the default of minor.
EditParams_NoDefault(o, a) ==
    ((CASE o = "edit" -> "text"
        [] o = "prepend" -> "prependtext"
        [] o = "append" -> "appendtext") :> a.content)
    @@ [title |-> a.title, summary |-> a.summary, minor |-> a.minor]

\* edit / prepend / append, index.js lines 227-255: the object handed to
\* doEdit.
EditParams(o, a) ==
    ((CASE o = "edit" -> "text"
        [] o = "prepend" -> "prependtext"
        [] o = "append" -> "appendtext") :> a.content)
    @@ [title |-> a.title, summary |-> a.summary,
        minor |-> Default(a.minor, "true")]

\* doEdit, lines 209-214, without the token: the spread of params comes
\* after action, bot and minor and overrides them.
DoEditParams(p) ==
    p @@ [action |-> "edit", bot |-> "", minor |-> Or(p.minor, "")]

\* A pair of the protections formatted as level=action.
FormatProtection_Reversed(e) == <<e[2], "=", e[1]>>

\* protect, line 319: one entry of Object.entries formatted.
FormatProtection(e) == <<e[1], "=", e[2]>>

\* protect, lines 316-330, without the token; the mapping is the sequence of
\* its entries in iteration order.
ProtectParams(a) ==
    [action |-> "protect", title |-> a.title,
     protections |->
        Join([i \in 1..Len(a.protections) |->
                 FormatProtection(a.protections[i])], "|"),
     expiry |-> a.expiry, reason |-> a.reason,
     cascade |-> Default(a.cascade, "false")]

\* The parameters a write operation hands to api.post beside the token, for
\* the operations whose arguments are looked at.
WriteParams(o, a) ==
    IF ~a.given THEN NoForm
    ELSE IF o \in {"edit", "prepend", "append"}
    THEN DoEditParams(EditParams(o, a))
    ELSE IF o = "protect" THEN ProtectParams(a)
    ELSE NoForm

\* A write operation that does not pass the token on to api.post.
WriteCallParams_NoToken(o, t) ==
    [kind |-> "write", op |-> o, action |-> WriteAction(o), method |-> "post",
     csrf |-> FALSE, ptoken |-> NoToken]

\* doEdit, delete, restore, protect, block, unblock, email, move: the
\* parameters handed to api.post, with the token from getToken among them and
\* no csrf flag.
WriteCallParams(o, t) ==
    [kind |-> "write", op |-> o, action |-> WriteAction(o), method |-> "post",
     csrf |-> FALSE, ptoken |-> t]

\* ------------------------------------------------------------------------
\* Initial state: a freshly constructed client
\* ------------------------------------------------------------------------

Init ==
    /\ \E w \in Wikis : server = w[1] /\ path = w[2]
    /\ mwToken = Unset
    /\ jar = {}
    /\ facadeJar = {}
    /\ pc = [c \in Callers |-> "idle"]
    /\ call = [c \in Callers |-> NoCall]
    /\ req = [c \in Callers |-> NoReq]
    /\ result = [c \in Callers |-> NoResult]
    /\ log = [c \in Callers |-> <<>>]
    /\ obtained = [c \in Callers |-> NoToken]
    /\ lastOp = NoSyncOp
    /\ cache = "empty"
    /\ api = "API.js"
    /\ used = [wiki |-> {}, disc |-> {}]
    /\ params = [c \in Callers |-> NoParams]

\* ------------------------------------------------------------------------
\* Steps shared by the handlers
\* ------------------------------------------------------------------------

\* A settlement that drops the cached token.
Settle_TokenDropped(c, res) ==
    /\ pc' = [pc EXCEPT ![c] = "done"]
    /\ result' = [result EXCEPT ![c] = res]
    /\ req' = [req EXCEPT ![c] = NoReq]
    /\ call' = [call EXCEPT ![c].ptoken = NoToken]
    /\ obtained' = [obtained EXCEPT ![c] = NoToken]
    /\ mwToken' = Unset
    /\ UNCHANGED <<log, used>>

\* The promise of the call settles with res.  The request parameters are not
\* retained after the dispatch; what the call was and what it sent stays
\* visible until the caller takes the result.
Settle(c, res) ==
    /\ pc' = [pc EXCEPT ![c] = "done"]
    /\ result' = [result EXCEPT ![c] = res]
    /\ req' = [req EXCEPT ![c] = NoReq]
    /\ call' = [call EXCEPT ![c].ptoken = NoToken]
    /\ obtained' = [obtained EXCEPT ![c] = NoToken]
    /\ UNCHANGED <<log, mwToken, used>>

\* The promise of the call is rejected.
Fail(c, res) == Settle(c, res)

\* #mw sends the action request of the call (first attempt or replay) and
\* suspends at line 44.  The jar is read after the handler that sends the
\* request has stored the cookies of the response it handles.
SendAction(c, cl, cached) ==
    /\ req' = [req EXCEPT ![c] =
                 MwRequest("action", cl, cached, server, path, jar')]
    /\ log' = [log EXCEPT ![c] = Logged(@, "action")]
    /\ pc' = [pc EXCEPT ![c] = "attempt"]
    /\ used' = UseStore("wiki", "API.#jar")

\* this.get(...) of a token retrieval is sent and the caller suspends.
SendRetrieval(c, type, a, next) ==
    /\ req' = [req EXCEPT ![c] =
                 MwRequest(type, RetrievalCall(a), mwToken, server, path, jar')]
    /\ log' = [log EXCEPT ![c] = Logged(@, type)]
    /\ pc' = [pc EXCEPT ![c] = next]
    /\ used' = UseStore("wiki", "API.#jar")

\* ------------------------------------------------------------------------
\* Calls
\* ------------------------------------------------------------------------

\* API.get(params, csrf) / API.post(params, csrf), lines 83-89, up to the
\* await of line 44.
ApiCall(c, m, cs) ==
    /\ pc[c] = "idle"
    /\ jar' = jar
    /\ LET cl == [kind |-> "api", op |-> "-", action |-> "act", method |-> m,
                  csrf |-> cs, ptoken |-> NoToken]
       IN /\ call' = [call EXCEPT ![c] = cl]
          /\ SendAction(c, cl, mwToken)
    /\ lastOp' = NoSyncOp
    /\ UNCHANGED params
    /\ UNCHANGED <<server, path, mwToken, facadeJar, result, obtained, cache,
                   api>>

\* A write operation of the facade, up to the await inside getToken
\* (index.js line 187).
WriteCallWith(c, o, a) ==
    /\ pc[c] = "idle"
    /\ jar' = jar
    /\ call' = [call EXCEPT ![c] = WriteCallParams(o, NoToken)]
    /\ params' = [params EXCEPT ![c] = [args |-> a, form |-> NoForm]]
    /\ SendRetrieval(c, "getToken", "query", "getToken")
    /\ lastOp' = NoSyncOp
    /\ UNCHANGED <<server, path, mwToken, facadeJar, result, obtained, cache,
                   api>>

\* A write operation whose arguments, other than the operation itself, are
\* not looked at.
WriteCall(c, o) ==
    /\ o \in WriteOps
    /\ WriteCallWith(c, o, NoArgs)

\* The answer to getToken's retrieval arrives: getToken validates it and the
\* write operation posts its action (index.js lines 193-198 and 209-215).
GetTokenResponseWith(c, resp) ==
    /\ pc[c] = "getToken"
    /\ resp \in TokenResponses(req[c])
    /\ jar' = StoreCookies(jar, req[c], resp)
    /\ IF MwThrows(resp) THEN Fail(c, MwError(resp))
       ELSE IF ~GetTokenAccepts(resp)
       THEN Fail(c, Failure("Error", "-", "CANT_GET_TOKEN"))
       ELSE LET cl == WriteCallParams(call[c].op, resp.token)
            IN /\ call' = [call EXCEPT ![c] = cl]
               /\ obtained' = [obtained EXCEPT ![c] = resp.token]
               /\ SendAction(c, cl, mwToken)
               /\ UNCHANGED <<result, mwToken>>
    /\ params' = [params EXCEPT ![c].form =
                    IF MwThrows(resp) \/ ~GetTokenAccepts(resp) THEN @
                    ELSE WriteParams(call[c].op, params[c].args)]
    /\ lastOp' = NoSyncOp
    /\ UNCHANGED <<server, path, facadeJar, cache, api>>

\* The answer to an action request arrives (API.js lines 44-75).
AttemptResponseWith(c, resp) ==
    /\ pc[c] = "attempt"
    /\ resp \in ActionResponses(req[c])
    /\ jar' = StoreCookies(jar, req[c], resp)
    /\ IF MwThrows(resp) THEN Fail(c, MwError(resp))
       ELSE IF IsBadToken(resp)
       THEN /\ SendRetrieval(c, "refresh", "query", "refresh")
            /\ UNCHANGED <<call, result, obtained, mwToken>>
       ELSE Settle(c, BodyResult(Attempts(c)))
    /\ lastOp' = NoSyncOp
    /\ UNCHANGED params
    /\ UNCHANGED <<server, path, facadeJar, cache, api>>

\* A replay that attaches the token that was cached before the refresh
\* stored its own.
StoreAndReplay_StaleRead(c, t) ==
    /\ mwToken' = t
    /\ obtained' = [obtained EXCEPT ![c] = t]
    /\ SendAction(c, call[c], mwToken)
    /\ UNCHANGED <<call, result>>

\* The token of a refresh is stored and the action is replayed
\* (API.js lines 59 / 68 and 71): #mw is re-entered in the same turn and
\* reads the cached token at line 42 before its first await.
StoreAndReplay(c, t) ==
    /\ mwToken' = t
    /\ obtained' = [obtained EXCEPT ![c] = t]
    /\ SendAction(c, call[c], mwToken')
    /\ UNCHANGED <<call, result>>

\* The answer to the standard retrieval of a refresh arrives
\* (API.js lines 52-67).
RefreshResponseWith(c, resp) ==
    /\ pc[c] = "refresh"
    /\ resp \in TokenResponses(req[c])
    /\ jar' = StoreCookies(jar, req[c], resp)
    /\ IF MwThrows(resp) THEN Fail(c, MwError(resp))
       ELSE IF resp.kind = "tokens" THEN StoreAndReplay(c, resp.token)
       ELSE /\ SendRetrieval(c, "legacy", "query", "legacy")
            /\ UNCHANGED <<call, result, obtained, mwToken>>
    /\ lastOp' = NoSyncOp
    /\ UNCHANGED params
    /\ UNCHANGED <<server, path, facadeJar, cache, api>>

\* A legacy branch that leaves the sentinel in the cache.
LegacyToken_Sentinel(resp) == Unset

\* API.js line 68: the edittoken of the first page entry, undefined when the
\* entry has none.
LegacyToken(resp) == IF resp.kind = "pages" THEN resp.token ELSE Absent

\* The answer to the legacy retrieval arrives (API.js lines 62-71).
LegacyResponseWith(c, resp) ==
    /\ pc[c] = "legacy"
    /\ resp \in LegacyResponses(req[c])
    /\ jar' = StoreCookies(jar, req[c], resp)
    /\ IF MwThrows(resp) THEN Fail(c, MwError(resp))
       ELSE IF resp.kind = "noPages"
       THEN Fail(c, Failure("TypeError", "-", "-"))
       ELSE StoreAndReplay(c, LegacyToken(resp))
    /\ lastOp' = NoSyncOp
    /\ UNCHANGED params
    /\ UNCHANGED <<server, path, facadeJar, cache, api>>

\* The backend answers the request in flight with any answer it can give.
GetTokenResponse(c) ==
    \E resp \in TokenResponses(req[c]) : GetTokenResponseWith(c, resp)

AttemptResponse(c) ==
    \E resp \in ActionResponses(req[c]) : AttemptResponseWith(c, resp)

RefreshResponse(c) ==
    \E resp \in TokenResponses(req[c]) : RefreshResponseWith(c, resp)

LegacyResponse(c) ==
    \E resp \in LegacyResponses(req[c]) : LegacyResponseWith(c, resp)

\* The caller has taken the settled promise; it may start its next call.
Return(c) ==
    /\ pc[c] = "done"
    /\ pc' = [pc EXCEPT ![c] = "idle"]
    /\ call' = [call EXCEPT ![c] = NoCall]
    /\ result' = [result EXCEPT ![c] = NoResult]
    /\ log' = [log EXCEPT ![c] = <<>>]
    /\ obtained' = [obtained EXCEPT ![c] = NoToken]
    /\ params' = [params EXCEPT ![c] = NoParams]
    /\ lastOp' = NoSyncOp
    /\ UNCHANGED <<server, path, mwToken, jar, facadeJar, req, cache, api,
                   used>>

\* ------------------------------------------------------------------------
\* Synchronous operations
\* ------------------------------------------------------------------------

SyncOp(name, s, p) ==
    [name |-> name, server |-> s, path |-> p,
     hadCookies |-> jar # {}, hadToken |-> mwToken # Unset]

\* API.setServer, lines 21-26.
SetServer(s, p) ==
    /\ server' = s
    /\ path' = p
    /\ mwToken' = LogoutToken
    /\ jar' = LogoutJar
    /\ lastOp' = SyncOp("setServer", s, p)
    /\ UNCHANGED params
    /\ UNCHANGED <<facadeJar, pc, call, req, result, log, obtained, cache,
                   api, used>>

\* API.logout, lines 78-81.
Logout ==
    /\ mwToken' = LogoutToken
    /\ jar' = LogoutJar
    /\ lastOp' = SyncOp("logout", "-", "-")
    /\ UNCHANGED params
    /\ UNCHANGED <<server, path, facadeJar, pc, call, req, result, log,
                   obtained, cache, api, used>>

\* MediaWikiJS.logout, index.js lines 99-101: it empties the jar created at
\* line 47, which API.js never receives (its constructor makes its own).
MWLogout ==
    /\ facadeJar' = {}
    /\ lastOp' = SyncOp("mwLogout", "-", "-")
    /\ UNCHANGED params
    /\ UNCHANGED <<server, path, mwToken, jar, pc, call, req, result, log,
                   obtained, cache, api, used>>

Next ==
    \/ \E c \in Callers, m \in {"get", "post"}, cs \in BOOLEAN : ApiCall(c, m, cs)
    \/ \E c \in Callers, o \in WriteOps : WriteCall(c, o)
    \/ \E c \in Callers : GetTokenResponse(c)
    \/ \E c \in Callers : AttemptResponse(c)
    \/ \E c \in Callers : RefreshResponse(c)
    \/ \E c \in Callers : LegacyResponse(c)
    \/ \E c \in Callers : Return(c)
    \/ \E w \in Wikis : SetServer(w[1], w[2])
    \/ Logout
    \/ MWLogout

Spec == Init /\ [][Next]_vars

\* Every HTTP call that is in flight is eventually answered.
Respond(c) ==
    \/ GetTokenResponse(c)
    \/ AttemptResponse(c)
    \/ RefreshResponse(c)
    \/ LegacyResponse(c)

FairSpec == Spec /\ \A c \in Callers : WF_vars(Respond(c))

\* ------------------------------------------------------------------------
\* Properties
\* ------------------------------------------------------------------------

InFlight == {"getToken", "attempt", "refresh", "legacy"}

\* C1: a dispatch sends at most two action requests and performs at most one
\* refresh; a badtoken answer to the replay starts no further retrieval.
C1_BoundedRetry ==
    \A c \in Callers :
        /\ Attempts(c) <= 2
        /\ Refreshes(c) <= 1
        /\ (pc[c] \in {"refresh", "legacy"} => Attempts(c) <= 1)

\* C2: every dispatch whose HTTP calls are all answered eventually settles.
C2_Terminates ==
    \A c \in Callers : (pc[c] \in InFlight) ~> (pc[c] = "done")

\* C3 as stated: a dispatch that resolved after exactly one rejected attempt
\* has sent the attempt, then exactly one token retrieval, then the replay,
\* and its result is the body that answered the replay.
C3_ExactlyOneRetrieval ==
    \A c \in Callers :
        (pc[c] = "done" /\ result[c].type = "body" /\ Complete(c)
         /\ Attempts(c) = 2)
        => /\ DispatchLog(c) = <<"action", "refresh", "action">>
           /\ result[c].attempt = 2

\* C3 (amended): a dispatch that resolved after exactly one rejected attempt
\* has sent the attempt, then one refresh (the standard retrieval, followed
\* by the legacy retrieval only when the standard one had no token), then one
\* replay, and its result is the body that answered the replay.
C3_SingleBadtoken ==
    \A c \in Callers :
        (pc[c] = "done" /\ result[c].type = "body" /\ Complete(c)
         /\ Attempts(c) = 2)
        => /\ DispatchLog(c) \in {<<"action", "refresh", "action">>,
                                  <<"action", "refresh", "legacy", "action">>}
           /\ result[c].attempt = 2

C3_Witness ==
    \E c \in Callers :
        /\ pc[c] = "done" /\ result[c].type = "body" /\ result[c].attempt = 2
        /\ DispatchLog(c) = <<"action", "refresh", "legacy", "action">>

\* C4: a replay in flight carries the token that the refresh before it
\* returned.
C4_ReplayCarriesRefreshedToken ==
    \A c \in Callers :
        (pc[c] = "attempt" /\ Attempts(c) >= 2) => req[c].token = obtained[c]

\* C5: the first request of a call made with the csrf flag is not an action
\* request carrying the unset sentinel.
C5_LazyAcquisition ==
    \A c \in Callers :
        (call[c].csrf /\ pc[c] = "attempt" /\ log[c] = <<"action">>)
        => req[c].token # Unset

\* C6: a write operation sends exactly one getToken retrieval, as its first
\* request; its action POSTs carry the token of the operation's parameters,
\* which at the first POST is the real token that retrieval returned; when
\* getToken fails, no action POST has been sent.
C6_WriteFetchesTokenFirst ==
    \A c \in Callers :
        call[c].kind = "write"
        => /\ Head(log[c]) = "getToken"
           /\ Retrievals(c) = 1
           /\ (Attempts(c) >= 1 => log[c][2] = "action")
           /\ (pc[c] = "attempt"
               => /\ req[c].type = "action"
                  /\ req[c].action = WriteAction(call[c].op)
                  /\ req[c].method = "post"
                  /\ req[c].token = call[c].ptoken
                  /\ req[c].token.kind = "tok"
                  /\ (log[c] = <<"getToken", "action">>
                      => req[c].token = obtained[c]))
           /\ (pc[c] = "getToken" => Attempts(c) = 0)
           /\ (result[c].info = "CANT_GET_TOKEN" => Attempts(c) = 0)

C6_Witness ==
    \E c \in Callers :
        /\ call[c].kind = "write" /\ call[c].op = "delete"
        /\ pc[c] = "attempt" /\ log[c] = <<"getToken", "action">>
        /\ req[c].token = Tok("wikiA", "/w", 2)

\* C7: right after setServer(server, path) the endpoint is the given one,
\* the cookie store is empty and the cached token is the unset sentinel.
C7_SetServerResets ==
    lastOp.name = "setServer"
    => /\ server = lastOp.server
       /\ path = lastOp.path
       /\ jar = {}
       /\ mwToken = Unset

C7_Witness ==
    /\ lastOp.name = "setServer"
    /\ lastOp.hadCookies
    /\ lastOp.hadToken
    /\ server = "wikiB"

\* C8: a request never carries a token that was issued for another endpoint
\* than the one the request is sent to.
C8_NoTokenOfOldEndpoint ==
    \A c \in Callers :
        req[c].token.kind = "tok"
        => /\ req[c].token.server = req[c].server
           /\ req[c].token.path = req[c].path

\* C9: a step of API.logout leaves the cookie store empty and the cached
\* token unset, and sends no request: no call advances and no history grows.
C9_LogoutResets ==
    [][lastOp'.name = "logout"
       => /\ jar' = {}
          /\ mwToken' = Unset
          /\ req' = req
          /\ log' = log
          /\ pc' = pc]_vars

C9_Witness ==
    /\ lastOp.name = "logout"
    /\ lastOp.hadCookies
    /\ lastOp.hadToken
    /\ \E c \in Callers : pc[c] = "attempt"

\* C10: right after MediaWikiJS.logout() the cookie store of the API layer is
\* empty and the cached token is unset.
C10_FacadeLogoutResets ==
    lastOp.name = "mwLogout" => (jar = {} /\ mwToken = Unset)


\* Error codes of upstream error envelopes.
UpstreamCodes == {"badtoken", "permissiondenied"}

\* The error envelopes that are not badtoken.
OtherErrors == {r \in CommonResponses : r.kind = "error"}

\* C14: when the answer to any request of a dispatch is an error envelope
\* other than badtoken, the call is rejected in that step with the library's
\* API error for that envelope, no request is sent (the history does not
\* grow, nothing is in flight) and the cached token is unchanged.
C14_OtherErrorFailsAtOnce ==
    [][\A c \in Callers : \A resp \in OtherErrors :
          (\/ GetTokenResponseWith(c, resp)
           \/ AttemptResponseWith(c, resp)
           \/ RefreshResponseWith(c, resp)
           \/ LegacyResponseWith(c, resp))
          => /\ pc'[c] = "done"
             /\ result'[c].type = "error"
             /\ result'[c].class = "MediaWikiJSError"
             /\ result'[c].code = "MEDIAWIKI_ERROR"
             /\ result'[c].info = Info(resp.code)
             /\ req'[c] = NoReq
             /\ log' = log
             /\ mwToken' = mwToken]_vars

C14_Witness ==
    \E c \in Callers :
        /\ pc[c] = "done"
        /\ result[c].info = Info("permissiondenied")
        /\ call[c].csrf
        /\ log[c] = <<"action", "refresh", "action">>
        /\ mwToken.kind = "tok"

\* C15: an error raised for an upstream error envelope carries the upstream
\* error code together with the upstream message.
C15_ErrorCarriesUpstreamCode ==
    \A c \in Callers :
        (result[c].type = "error"
         /\ result[c].info \in {Info(k) : k \in UpstreamCodes})
        => /\ result[c].code \in UpstreamCodes
           /\ result[c].info = Info(result[c].code)

\* C16: the error raised for a response without body is of another kind
\* (class and code) than the error raised for an error envelope.
C16_NoBodyIsTransportError ==
    \A c \in Callers :
        (result[c].type = "error"
         /\ result[c].info = "Request did not return a body")
        => \A r \in OtherErrors :
              <<result[c].class, result[c].code>>
                  # <<MwError(r).class, MwError(r).code>>

\* C17: no replay is sent after a refresh whose retrievals yielded no token.
C17_NoReplayWithoutToken ==
    \A c \in Callers :
        (pc[c] = "attempt" /\ Attempts(c) >= 2) => obtained[c] # Absent

\* C18: when getToken rejects a response that #mw returned, the error is the
\* library's error with code CANT_GET_TOKEN.
C18_GetTokenError ==
    \A c \in Callers :
        (call[c].kind = "write" /\ pc[c] = "done" /\ result[c].type = "error"
         /\ log[c] = <<"getToken">>
         /\ result[c] \notin {MwError(r) : r \in CommonResponses})
        => /\ result[c].class = "MediaWikiJSError"
           /\ result[c].code = "CANT_GET_TOKEN"


\* ------------------------------------------------------------------------
\* Login and identity (src/src/index.js lines 56-101 and 542-550)
\* ------------------------------------------------------------------------

\* The promise chain that the constructor starts at lines 59-65, beside the
\* callers of the instance.
Procs == Callers \cup {"ctor"}

\* Parameters of a call that goes through api.get / api.post without token
\* and without csrf flag.
PlainCall(kind, a, m) ==
    [kind |-> kind, op |-> "-", action |-> a, method |-> m, csrf |-> FALSE,
     ptoken |-> NoToken]

\* Answers to query meta=tokens type=login: a body whose query.tokens holds
\* a logintoken, one whose query.tokens holds none, or a body without
\* query.tokens.
LoginTokenResponses(r) ==
    CommonResponses
    \cup {Resp("tokens", "-", Tok(r.server, r.path, 1), ck) : ck \in BOOLEAN}
    \cup {Resp("tokensNoLogin", "-", NoToken, ck) : ck \in BOOLEAN}
    \cup {Resp("notokens", "-", NoToken, ck) : ck \in BOOLEAN}

\* Results of action=login.
LoginResults == {"Success", "NeedToken", "Failed"}

\* Answers to action=login: a body {login: {result}}; NeedToken comes with a
\* token to resubmit, Success sets the session cookies.
LoginResponses(r) ==
    CommonResponses
    \cup {Resp("login", "Success", NoToken, TRUE)}
    \cup {Resp("login", "NeedToken", Tok(r.server, r.path, 2), ck) :
            ck \in BOOLEAN}
    \cup {Resp("login", "Failed", NoToken, ck) : ck \in BOOLEAN}

\* Answers to query meta=userinfo: the user of the session whose cookies the
\* request carried, the anonymous user otherwise; or a body without query.
WhoAmIResponses(r) ==
    CommonResponses
    \cup {Resp("userinfo", IF r.session THEN "user" ELSE "anon", NoToken, ck) :
            ck \in BOOLEAN}
    \cup {Resp("ok", "-", NoToken, ck) : ck \in BOOLEAN}

\* got stores the cookies of a response; those of a successful login are the
\* session cookies of the server that was asked.
StoreLoginCookies(j, r, resp) ==
    IF resp.kind = "login" /\ resp.code = "Success"
    THEN StoreCookies(j, r, resp) \cup {SessionCookie(r.server)}
    ELSE StoreCookies(j, r, resp)

\* The body a call resolves with; code is login.result of a login body and
\* the identity of a userinfo body.
Body(code) ==
    [type |-> "body", class |-> "-", code |-> code, info |-> "-", attempt |-> 1]

\* api.get / api.post of a call without token is sent and the call suspends.
SendPlain(c, type, cl, next) ==
    /\ req' = [req EXCEPT ![c] =
                 MwRequest(type, cl, mwToken, server, path, jar')]
    /\ log' = [log EXCEPT ![c] = Logged(@, type)]
    /\ pc' = [pc EXCEPT ![c] = next]
    /\ used' = UseStore("wiki", "API.#jar")

\* The constructor has returned: login() of line 60 has sent its first
\* request and is suspended at line 76.
LoginInit ==
    /\ \E w \in Wikis : server = w[1] /\ path = w[2]
    /\ mwToken = Unset
    /\ jar = {}
    /\ facadeJar = {}
    /\ pc = [c \in Procs |-> IF c = "ctor" THEN "loginToken" ELSE "idle"]
    /\ call = [c \in Procs |->
                 IF c = "ctor" THEN PlainCall("prime", "query", "post")
                 ELSE NoCall]
    /\ req = [c \in Procs |->
                IF c = "ctor"
                THEN MwRequest("loginToken", PlainCall("prime", "query", "post"),
                               Unset, server, path, {})
                ELSE NoReq]
    /\ result = [c \in Procs |-> NoResult]
    /\ log = [c \in Procs |-> IF c = "ctor" THEN <<"loginToken">> ELSE <<>>]
    /\ obtained = [c \in Procs |-> NoToken]
    /\ lastOp = NoSyncOp
    /\ cache = "empty"
    /\ api = "API.js"
    /\ used = [wiki |-> {"API.#jar"}, disc |-> {}]
    /\ params = [c \in Procs |-> NoParams]

\* login(), lines 75-81, up to the await of its first request.
LoginCall(c) ==
    /\ pc[c] = "idle"
    /\ jar' = jar
    /\ call' = [call EXCEPT ![c] = PlainCall("login", "query", "post")]
    /\ SendPlain(c, "loginToken", PlainCall("login", "query", "post"),
                 "loginToken")
    /\ lastOp' = NoSyncOp
    /\ UNCHANGED params
    /\ UNCHANGED <<server, path, mwToken, facadeJar, result, obtained, cache,
                   api>>

\* whoAmI(), lines 542-547, up to the await of its request.
WhoAmICall(c) ==
    /\ pc[c] = "idle"
    /\ jar' = jar
    /\ call' = [call EXCEPT ![c] = PlainCall("whoami", "query", "get")]
    /\ SendPlain(c, "whoami", PlainCall("whoami", "query", "get"), "whoami")
    /\ lastOp' = NoSyncOp
    /\ UNCHANGED params
    /\ UNCHANGED <<server, path, mwToken, facadeJar, result, obtained, cache,
                   api>>

\* Credentials submitted without the token of the retrieval.
LoginParams_NoToken(t) ==
    [action |-> "login", lgname |-> "botUsername", lgpassword |-> "botPassword",
     lgtoken |-> Absent, format |-> "json"]

\* login(), lines 84-90: the parameters of the credential submission, with
\* the configured name and password and the logintoken t.
LoginParams(t) ==
    [action |-> "login", lgname |-> "botUsername", lgpassword |-> "botPassword",
     lgtoken |-> t, format |-> "json"]

\* login(), lines 83-93: the answer to the login-token query arrives; the
\* login request is posted with whatever query.tokens.logintoken is.
LoginTokenResponseWith(c, resp) ==
    /\ pc[c] = "loginToken"
    /\ resp \in LoginTokenResponses(req[c])
    /\ jar' = StoreCookies(jar, req[c], resp)
    /\ IF MwThrows(resp) THEN Fail(c, MwError(resp))
       ELSE IF resp.kind = "notokens"
       THEN Fail(c, Failure("MediaWikiJSError", "FAILED_LOGIN", "-"))
       ELSE LET cl == [call[c] EXCEPT !.action = "login"]
            IN /\ call' = [call EXCEPT ![c] = cl]
               /\ obtained' = [obtained EXCEPT ![c] =
                                 IF resp.kind = "tokens" THEN resp.token
                                 ELSE Absent]
               /\ SendPlain(c, "login", cl, "login")
               /\ UNCHANGED <<result, mwToken>>
    /\ params' = [params EXCEPT ![c].form =
                    IF MwThrows(resp) \/ resp.kind = "notokens" THEN @
                    ELSE LoginParams(IF resp.kind = "tokens" THEN resp.token
                                     ELSE Absent)]
    /\ lastOp' = NoSyncOp
    /\ UNCHANGED <<server, path, facadeJar, cache, api>>

\* The answer to action=login arrives.  login() resolves with the body that
\* #mw returns (line 84); in the constructor's chain the callback of line 60
\* then calls whoAmI().
LoginResponseWith(c, resp) ==
    /\ pc[c] = "login"
    /\ resp \in LoginResponses(req[c])
    /\ jar' = StoreLoginCookies(jar, req[c], resp)
    /\ IF MwThrows(resp) THEN Fail(c, MwError(resp))
       ELSE IF call[c].kind = "prime"
       THEN LET cl == [call[c] EXCEPT !.action = "query", !.method = "get"]
            IN /\ call' = [call EXCEPT ![c] = cl]
               /\ obtained' = [obtained EXCEPT ![c] = NoToken]
               /\ SendPlain(c, "whoami", cl, "whoami")
               /\ UNCHANGED <<result, mwToken>>
       ELSE Settle(c, Body(resp.code))
    /\ lastOp' = NoSyncOp
    /\ UNCHANGED params
    /\ UNCHANGED <<server, path, facadeJar, cache, api>>

\* The answer to whoAmI's query arrives (line 549); in the constructor's
\* chain the callback of lines 62-64 stores it in the cache.
WhoAmIResponseWith(c, resp) ==
    /\ pc[c] = "whoami"
    /\ resp \in WhoAmIResponses(req[c])
    /\ jar' = StoreCookies(jar, req[c], resp)
    /\ IF MwThrows(resp) THEN Fail(c, MwError(resp)) /\ cache' = cache
       ELSE IF resp.kind = "ok"
       THEN Fail(c, Failure("TypeError", "-", "-")) /\ cache' = cache
       ELSE /\ Settle(c, Body(resp.code))
            /\ cache' = IF call[c].kind = "prime" THEN resp.code ELSE cache
    /\ lastOp' = NoSyncOp
    /\ UNCHANGED params
    /\ UNCHANGED <<server, path, facadeJar, api>>

LoginTokenResponse(c) ==
    \E resp \in LoginTokenResponses(req[c]) : LoginTokenResponseWith(c, resp)

LoginResponse(c) ==
    \E resp \in LoginResponses(req[c]) : LoginResponseWith(c, resp)

WhoAmIResponse(c) ==
    \E resp \in WhoAmIResponses(req[c]) : WhoAmIResponseWith(c, resp)

LoginNext ==
    \/ \E c \in Callers : LoginCall(c)
    \/ \E c \in Callers : WhoAmICall(c)
    \/ \E c \in Procs : LoginTokenResponse(c)
    \/ \E c \in Procs : LoginResponse(c)
    \/ \E c \in Procs : WhoAmIResponse(c)
    \/ \E c \in Callers : Return(c)
    \/ \E w \in Wikis : SetServer(w[1], w[2])
    \/ Logout
    \/ MWLogout

LoginSpec == LoginInit /\ [][LoginNext]_vars

\* C11: login() resolves only with a body whose login result is Success.
C11_LoginResolvesOnlyOnSuccess ==
    \A c \in Callers :
        (call[c].kind = "login" /\ pc[c] = "done" /\ result[c].type = "body")
        => result[c].code = "Success"

\* C12: a login() that was answered NeedToken has posted action=login a
\* second time; no login() settles with the NeedToken answer after a single
\* login request.
C12_NeedTokenResubmits ==
    \A c \in Callers :
        (call[c].kind = "login" /\ pc[c] = "done"
         /\ CountOf(log[c], "login") = 1)
        => result[c].code # "NeedToken"

\* C13: once the constructor's chain is over, a login() that has succeeded
\* leaves the identity of the user in the cache, and after a logout (of the
\* facade or of the API) the cached identity is not that of a user.
C13_CachedIdentity ==
    /\ \A c \in Callers :
          (pc["ctor"] = "done" /\ call[c].kind = "login" /\ pc[c] = "done"
           /\ result[c].code = "Success")
          => cache = "user"
    /\ lastOp.name \in {"logout", "mwLogout"} => cache # "user"


\* ------------------------------------------------------------------------
\* Discussion service (src/src/index.js lines 729-842) on the API object
\* ------------------------------------------------------------------------

\* The classes the repository has for MediaWikiJS.api: src/src/API.js, which
\* has get and post only, and the API of src/unnamed/part_003, which has get,
\* post, send, postF, put and delete and takes its jar from the facade.
ApiClasses == {"API.js", "part_003"}

AuthServer == "services.fandom.com"

DiscOps == {"post", "deletePost", "undeletePost", "lockPost", "unlockPost"}

\* The got method each operation hands to send.
DiscMethod(op) ==
    CASE op = "post" -> "post"
      [] op \in {"deletePost", "undeletePost", "lockPost"} -> "put"
      [] op = "unlockPost" -> "delete"

\* Last segment of the URL of each operation.
DiscAction(op) ==
    CASE op = "post" -> "threads"
      [] op = "deletePost" -> "delete"
      [] op = "undeletePost" -> "undelete"
      [] op \in {"lockPost", "unlockPost"} -> "lock"

DiscCallParams(op) ==
    [kind |-> "disc", op |-> op, action |-> DiscAction(op),
     method |-> DiscMethod(op), csrf |-> FALSE, ptoken |-> NoToken]

\* Answers of the discussion service, and of a wiki to part_003's get / post,
\* to the request r in flight.
DiscResponses(r) ==
    IF r.type = "none" THEN {}
    ELSE CommonResponses \cup {Resp("ok", "-", NoToken, ck) : ck \in BOOLEAN}

\* send of part_003, lines 71-78: got rejects.  send passes no responseType,
\* so body is the text of the response and body.error at line 76 is the
\* error property of a string, which is undefined for every text.
SendThrows(resp) == resp.kind = "reject"

\* send of part_003, lines 80-84: the text parsed as JSON, or the text as it
\* is when it does not parse.  An error envelope is a text that parses to
\* a value with an error field.
SendResult(resp) ==
    Body(CASE resp.kind = "error" -> "parsedWithError"
           [] resp.kind = "ok" -> "parsed"
           [] OTHER -> "raw")

\* Thread ids (and, for post, forum ids) an operation is called with.
ThreadIds == {"42", "7"}

\* options.wikiId of the configuration.
WikiId == "1706"

\* DISCUSSIONS_BASE_URL, index.js line 54; a URL is the sequence of the
\* pieces it is concatenated from.
DiscussionsBaseUrl == <<"https://services.fandom.com/discussion/", WikiId>>

AuthUrl == <<"https://services.fandom.com/auth/token">>

\* The URL each operation hands to postF / put / delete (index.js lines 749,
\* 792, 807, 822, 837).
DiscUrl(op, id) ==
    IF op = "post" THEN DiscussionsBaseUrl \o <<"/forums/", id, "/threads">>
    ELSE DiscussionsBaseUrl
         \o <<"/threads/", id,
              CASE op = "deletePost" -> "/delete"
                [] op = "undeletePost" -> "/undelete"
                [] OTHER -> "/lock">>

\* post, index.js lines 750-777: the fields of the JSON body that hold an
\* identifier or a fixed text.
PostBody ==
    [forumId |-> WikiId, siteId |-> WikiId, source |-> "DESKTOP_WEB_FEPO",
     funnel |-> "TEXT"]

\* What an operation hands to postF / put / delete: the URL and, for post,
\* the body.
DiscForm(op, id) ==
    IF op = "post"
    THEN [action |-> DiscAction(op), url |-> DiscUrl(op, id), body |-> PostBody]
    ELSE [action |-> DiscAction(op), url |-> DiscUrl(op, id)]

DiscRequest(type, m, a) ==
    [type |-> type, server |-> AuthServer, path |-> "-", method |-> m,
     action |-> a, token |-> NoToken, session |-> FALSE,
     format |-> "-", formatversion |-> "-"]

DiscInit ==
    /\ \E w \in Wikis : server = w[1] /\ path = w[2]
    /\ mwToken = Unset
    /\ jar = {}
    /\ facadeJar = {}
    /\ pc = [c \in Callers |-> "idle"]
    /\ call = [c \in Callers |-> NoCall]
    /\ req = [c \in Callers |-> NoReq]
    /\ result = [c \in Callers |-> NoResult]
    /\ log = [c \in Callers |-> <<>>]
    /\ obtained = [c \in Callers |-> NoToken]
    /\ lastOp = NoSyncOp
    /\ cache = "empty"
    /\ api \in ApiClasses
    /\ used = [wiki |-> {}, disc |-> {}]
    /\ params = [c \in Callers |-> NoParams]

\* get / post of src/src/API.js without csrf flag.
NewApiCall(c, m) == api = "API.js" /\ ApiCall(c, m, FALSE)

\* get / post of part_003, lines 28-36 and 49-57, up to the await; they set
\* format and no formatversion.
OldApiCall(c, m) ==
    /\ api = "part_003"
    /\ pc[c] = "idle"
    /\ call' = [call EXCEPT ![c] = PlainCall("api", "act", m)]
    /\ req' = [req EXCEPT ![c] =
                 [MwRequest("action", PlainCall("api", "act", m), Unset,
                            server, path, facadeJar)
                  EXCEPT !.formatversion = "-"]]
    /\ log' = [log EXCEPT ![c] = Logged(@, "action")]
    /\ pc' = [pc EXCEPT ![c] = "oldAttempt"]
    /\ used' = UseStore("wiki", "MediaWikiJS.jar")
    /\ lastOp' = NoSyncOp
    /\ UNCHANGED params
    /\ UNCHANGED <<server, path, mwToken, jar, facadeJar, result, obtained,
                   cache, api>>

\* get / post of part_003, lines 38-46 and 59-67.
OldApiResponseWith(c, resp) ==
    /\ pc[c] = "oldAttempt"
    /\ resp \in DiscResponses(req[c])
    /\ facadeJar' = StoreCookies(facadeJar, req[c], resp)
    /\ IF MwThrows(resp) THEN Fail(c, MwError(resp))
       ELSE Settle(c, BodyResult(1))
    /\ lastOp' = NoSyncOp
    /\ UNCHANGED params
    /\ UNCHANGED <<server, path, jar, cache, api>>

\* post, deletePost, undeletePost, lockPost, unlockPost up to the await of
\* getFandomCookies (index.js line 730).  this.api.postF is not a function of
\* src/src/API.js: the call throws a TypeError before any request.
DiscCall(c, op, id) ==
    /\ pc[c] = "idle"
    /\ call' = [call EXCEPT ![c] = DiscCallParams(op)]
    /\ IF api = "API.js"
       THEN /\ pc' = [pc EXCEPT ![c] = "done"]
            /\ result' = [result EXCEPT ![c] = Failure("TypeError", "-", "-")]
            /\ params' = [params EXCEPT ![c] =
                            [args |-> [given |-> TRUE, id |-> id],
                             form |-> NoForm]]
            /\ UNCHANGED <<req, log, used>>
       ELSE /\ req' = [req EXCEPT ![c] = DiscRequest("auth", "post", "token")]
            /\ params' = [params EXCEPT ![c] =
                            [args |-> [given |-> TRUE, id |-> id],
                             form |-> [action |-> "auth", url |-> AuthUrl]]]
            /\ log' = [log EXCEPT ![c] = Logged(@, "auth")]
            /\ pc' = [pc EXCEPT ![c] = "auth"]
            /\ used' = UseStore("disc", "MediaWikiJS.jar")
            /\ UNCHANGED result
    /\ lastOp' = NoSyncOp
    /\ UNCHANGED <<server, path, mwToken, jar, facadeJar, obtained, cache, api>>

\* The answer to the auth request arrives: the operation's request is sent
\* unless send threw.
AuthResponseWith(c, resp) ==
    /\ pc[c] = "auth"
    /\ resp \in DiscResponses(req[c])
    /\ facadeJar' = StoreCookies(facadeJar, req[c], resp)
    /\ IF SendThrows(resp) THEN Fail(c, MwError(resp)) /\ UNCHANGED params
       ELSE /\ req' = [req EXCEPT ![c] =
                         DiscRequest("op", call[c].method, call[c].action)]
            /\ params' = [params EXCEPT ![c].form =
                            DiscForm(call[c].op, params[c].args.id)]
            /\ log' = [log EXCEPT ![c] = Logged(@, "op")]
            /\ pc' = [pc EXCEPT ![c] = "disc"]
            /\ used' = UseStore("disc", "MediaWikiJS.jar")
            /\ UNCHANGED <<call, result, obtained, mwToken>>
    /\ lastOp' = NoSyncOp
    /\ UNCHANGED <<server, path, jar, cache, api>>

\* The answer to the operation's request arrives (send, lines 71-84).
DiscResponseWith(c, resp) ==
    /\ pc[c] = "disc"
    /\ resp \in DiscResponses(req[c])
    /\ facadeJar' = StoreCookies(facadeJar, req[c], resp)
    /\ IF SendThrows(resp) THEN Fail(c, MwError(resp))
       ELSE Settle(c, SendResult(resp))
    /\ lastOp' = NoSyncOp
    /\ UNCHANGED params
    /\ UNCHANGED <<server, path, jar, cache, api>>

OldApiResponse(c) ==
    \E resp \in DiscResponses(req[c]) : OldApiResponseWith(c, resp)

AuthResponse(c) ==
    \E resp \in DiscResponses(req[c]) : AuthResponseWith(c, resp)

DiscResponse(c) ==
    \E resp \in DiscResponses(req[c]) : DiscResponseWith(c, resp)

DiscNext ==
    \/ \E c \in Callers, m \in {"get", "post"} : NewApiCall(c, m)
    \/ \E c \in Callers, m \in {"get", "post"} : OldApiCall(c, m)
    \/ \E c \in Callers, op \in DiscOps, id \in ThreadIds : DiscCall(c, op, id)
    \/ \E c \in Callers : AttemptResponse(c)
    \/ \E c \in Callers : OldApiResponse(c)
    \/ \E c \in Callers : AuthResponse(c)
    \/ \E c \in Callers : DiscResponse(c)
    \/ \E c \in Callers : Return(c)
    \/ MWLogout

DiscSpec == DiscInit /\ [][DiscNext]_vars

\* C19: no cookie jar is handed to got both with a wiki API request and with
\* a discussion-service request.
C19_SeparateCookieStores == used.wiki \cap used.disc = {}

\* C20: a discussion operation that has settled has sent the auth request
\* first, then at most the one request of the operation, and it has sent
\* both when it resolved.
C20_AcquireThenOperate ==
    \A c \in Callers :
        (call[c].kind = "disc" /\ pc[c] = "done")
        => /\ log[c] \in {<<"auth">>, <<"auth", "op">>}
           /\ result[c].type = "body" => log[c] = <<"auth", "op">>


\* ------------------------------------------------------------------------
\* Frame of the cached token
\* ------------------------------------------------------------------------

\* C30: the cached token changes only in the step of a refresh that stores
\* the token it retrieved, in setServer and in logout; every other step of a
\* get / post call, settling it or not, leaves it as it is.
C30_TokenFrame ==
    [][mwToken' # mwToken
       => \/ lastOp'.name \in {"setServer", "logout"}
          \/ \E c \in Callers :
                /\ pc[c] \in {"refresh", "legacy"}
                /\ pc'[c] = "attempt"
                /\ mwToken' = obtained'[c]]_vars

C30_Witness ==
    \E c \in Callers :
        /\ pc[c] = "done"
        /\ call[c].kind = "api"
        /\ log[c] = <<"action">>
        /\ result[c].type = "error"
        /\ mwToken.kind = "tok"


\* ------------------------------------------------------------------------
\* Concurrent dispatches on one API instance (src/src/API.js)
\* ------------------------------------------------------------------------

\* Two dispatches that overlap on one instance.
Dispatchers == {"d1", "d2"}

\* Answers considered for overlapping dispatches: those that set no cookie,
\* and a badtoken error for the first attempt of a dispatch only.
Considered(c, resp) ==
    /\ ~resp.cookie
    /\ IsBadToken(resp) => Attempts(c) = 1

ConcInit ==
    /\ \E w \in Wikis : server = w[1] /\ path = w[2]
    /\ mwToken = Unset
    /\ jar = {}
    /\ facadeJar = {}
    /\ pc = [c \in Dispatchers |-> "idle"]
    /\ call = [c \in Dispatchers |-> NoCall]
    /\ req = [c \in Dispatchers |-> NoReq]
    /\ result = [c \in Dispatchers |-> NoResult]
    /\ log = [c \in Dispatchers |-> <<>>]
    /\ obtained = [c \in Dispatchers |-> NoToken]
    /\ lastOp = NoSyncOp
    /\ cache = "empty"
    /\ api = "API.js"
    /\ used = [wiki |-> {}, disc |-> {}]
    /\ params = [c \in Dispatchers |-> NoParams]

ConcAttemptResponse(c) ==
    \E resp \in ActionResponses(req[c]) :
        Considered(c, resp) /\ AttemptResponseWith(c, resp)

ConcRefreshResponse(c) ==
    \E resp \in TokenResponses(req[c]) :
        Considered(c, resp) /\ RefreshResponseWith(c, resp)

ConcLegacyResponse(c) ==
    \E resp \in LegacyResponses(req[c]) :
        Considered(c, resp) /\ LegacyResponseWith(c, resp)

ConcNext ==
    \/ \E c \in Dispatchers, cs \in BOOLEAN : ApiCall(c, "post", cs)
    \/ \E c \in Dispatchers : ConcAttemptResponse(c)
    \/ \E c \in Dispatchers : ConcRefreshResponse(c)
    \/ \E c \in Dispatchers : ConcLegacyResponse(c)
    \/ \E c \in Dispatchers : Return(c)
    \/ \E w \in Wikis : SetServer(w[1], w[2])
    \/ Logout

ConcSpec == ConcInit /\ [][ConcNext]_vars

\* C29: whatever the other dispatch, logout and setServer did while the
\* refresh of a dispatch was in flight, the step that handles the answer of
\* the refresh caches the token of that answer and sends the replay with
\* that token attached.
C29_ReplayReadsOwnRefresh ==
    [][\A c \in Dispatchers :
          /\ \A resp \in TokenResponses(req[c]) :
                (RefreshResponseWith(c, resp) /\ resp.kind = "tokens"
                 /\ call[c].csrf)
                => /\ mwToken' = resp.token
                   /\ req'[c].type = "action"
                   /\ req'[c].token = resp.token
          /\ \A resp \in LegacyResponses(req[c]) :
                (LegacyResponseWith(c, resp) /\ resp.kind = "pages"
                 /\ call[c].csrf)
                => /\ mwToken' = resp.token
                   /\ req'[c].type = "action"
                   /\ req'[c].token = resp.token]_vars

\* Both dispatches have their replay in flight, each with the token of its
\* own refresh, after the second refresh replaced the token of the first.
C29_Witness ==
    /\ pc["d1"] = "attempt" /\ Attempts("d1") = 2
    /\ pc["d2"] = "attempt" /\ Attempts("d2") = 2
    /\ call["d1"].csrf /\ call["d2"].csrf
    /\ req["d1"].token.kind = "tok"
    /\ req["d2"].token.kind = "tok"
    /\ req["d1"].token # req["d2"].token
    /\ mwToken = req["d2"].token


\* C21: a discussion operation does not resolve with a parsed body that has
\* an error field.
C21_ParsedErrorFails ==
    \A c \in Callers :
        (call[c].kind = "disc" /\ pc[c] = "done" /\ result[c].type = "body")
        => result[c].code # "parsedWithError"


\* The lifecycle operations of a thread.
LifecycleOps == {"deletePost", "undeletePost", "lockPost", "unlockPost"}

\* C22: a lifecycle operation whose auth call was not rejected has sent its
\* request, and that request is a PUT (a DELETE for unlockPost) to
\* {base}/threads/{id}/delete, /undelete or /lock, base being the discussion
\* URL of the configured wiki id.
C22_LifecycleRequests ==
    \A c \in Callers :
        (call[c].kind = "disc" /\ call[c].op \in LifecycleOps)
        => /\ (pc[c] = "done" /\ result[c].class # "RequestError")
              => log[c] = <<"auth", "op">>
           /\ \A id \in ThreadIds :
                 (log[c] = <<"auth", "op">> /\ params[c].args.id = id)
                 => /\ params[c].form.url
                         = <<"https://services.fandom.com/discussion/", WikiId,
                             "/threads/", id,
                             CASE call[c].op = "deletePost" -> "/delete"
                               [] call[c].op = "undeletePost" -> "/undelete"
                               [] OTHER -> "/lock">>
                    /\ (pc[c] = "disc"
                        => req[c].method
                             = (IF call[c].op = "unlockPost" THEN "delete"
                                ELSE "put"))


\* ------------------------------------------------------------------------
\* Parameters of the facade operations (src/src/index.js)
\* ------------------------------------------------------------------------

\* Longest list that purge is called with.
MaxItems == 2

\* An entry of the input of purge: a string or a number, with its text.
Str(text) == [type |-> "string", text |-> text]

Num(digits) == [type |-> "number", text |-> <<digits>>]

PurgeEntries ==
    {Str(<<"Page A">>), Str(<<"Page B">>), Str(<<"Category:", "Stubs">>),
     Num("1"), Num("2")}

RECURSIVE SeqsUpTo(_, _)
SeqsUpTo(S, n) ==
    IF n = 0 THEN {<<>>}
    ELSE LET shorter == SeqsUpTo(S, n - 1)
         IN shorter \cup {Append(q, e) : q \in shorter, e \in S}

\* Inputs of purge: one entry, or an array of entries.
PurgeInputs ==
    {[isArray |-> FALSE, items |-> <<e>>] : e \in PurgeEntries}
    \cup {[isArray |-> TRUE, items |-> q] : q \in SeqsUpTo(PurgeEntries, MaxItems)}

Texts(items) == [i \in 1..Len(items) |-> items[i].text]

\* purge that sends every list as titles.
PurgeParams_TitlesOnly(t) ==
    IF ~t.isArray /\ t.items[1].type = "string"
       /\ StartsWith(t.items[1].text, "Category:")
    THEN [action |-> "purge", generator |-> "categorymembers",
          gcmtitle |-> t.items[1].text]
    ELSE [action |-> "purge", titles |-> Join(Texts(t.items), "|")]

\* purge, lines 380-389.  A value that is not an array is wrapped in one
\* (line 386), which is what items already is.
PurgeParams(t) ==
    IF ~t.isArray /\ t.items[1].type = "string"
       /\ StartsWith(t.items[1].text, "Category:")
    THEN [action |-> "purge", generator |-> "categorymembers",
          gcmtitle |-> t.items[1].text]
    ELSE IF t.items # <<>> /\ t.items[1].type = "number"
    THEN [action |-> "purge", pageids |-> Join(Texts(t.items), "|")]
    ELSE [action |-> "purge", titles |-> Join(Texts(t.items), "|")]

\* purge that asks the dispatcher to attach the cached token.
PurgeCallParams_Csrf ==
    [kind |-> "purge", op |-> "purge", action |-> "purge", method |-> "post",
     csrf |-> TRUE, ptoken |-> NoToken]

\* purge, line 391: api.post(params), no csrf flag, no token parameter.
PurgeCallParams ==
    [kind |-> "purge", op |-> "purge", action |-> "purge", method |-> "post",
     csrf |-> FALSE, ptoken |-> NoToken]

PurgeCall(c, t) ==
    /\ pc[c] = "idle"
    /\ jar' = jar
    /\ call' = [call EXCEPT ![c] = PurgeCallParams]
    /\ params' = [params EXCEPT ![c] =
                    [args |-> [given |-> TRUE, input |-> t],
                     form |-> PurgeParams(t)]]
    /\ SendAction(c, PurgeCallParams, mwToken)
    /\ lastOp' = NoSyncOp
    /\ UNCHANGED <<server, path, mwToken, facadeJar, result, obtained, cache,
                   api>>

\* Arguments of edit / prepend / append.
EditArgs ==
    {[given |-> TRUE, title |-> "P", content |-> ct, summary |-> "s",
      minor |-> m] : ct \in {"x", "y"}, m \in {Undefined, "true", "false"}}

\* edit / prepend / append, lines 227-255, up to the await inside getToken.
EditCall(c, o, a) ==
    /\ o \in {"edit", "prepend", "append"}
    /\ WriteCallWith(c, o, a)

\* Protections mappings: entries with distinct actions, in iteration order.
Protections ==
    {q \in SeqsUpTo({"edit", "move"} \X {"sysop", "autoconfirmed"}, 2) :
        \A i, j \in 1..Len(q) : i # j => q[i][1] # q[j][1]}

ProtectArgs ==
    {[given |-> TRUE, title |-> "P", protections |-> m, expiry |-> Undefined,
      reason |-> "r", cascade |-> cs] :
        m \in Protections, cs \in {Undefined, "true"}}

\* protect, lines 314-315, up to the await inside getToken.
ProtectCall(c, a) ==
    /\ a \in ProtectArgs
    /\ WriteCallWith(c, "protect", a)

\* createAccount, lines 444-448, up to the await of the retrieval.
CreateAccountCall(c) ==
    /\ pc[c] = "idle"
    /\ jar' = jar
    /\ call' = [call EXCEPT ![c] = PlainCall("createAccount", "query", "get")]
    /\ SendPlain(c, "createToken", PlainCall("createAccount", "query", "get"),
                 "createToken")
    /\ lastOp' = NoSyncOp
    /\ UNCHANGED params
    /\ UNCHANGED <<server, path, mwToken, facadeJar, result, obtained, cache,
                   api>>

\* createAccount, lines 450-457: the answer to the retrieval arrives.  #mw
\* returns the body {query: {tokens}} (or one without query.tokens); line
\* 453 reads body.tokens.createaccounttoken, and body.tokens is undefined in
\* either, so a TypeError is thrown while the argument of api.post is built.
CreateTokenResponseWith(c, resp) ==
    /\ pc[c] = "createToken"
    /\ resp \in TokenResponses(req[c])
    /\ jar' = StoreCookies(jar, req[c], resp)
    /\ IF MwThrows(resp) THEN Fail(c, MwError(resp))
       ELSE Fail(c, Failure("TypeError", "-", "-"))
    /\ lastOp' = NoSyncOp
    /\ UNCHANGED params
    /\ UNCHANGED <<server, path, facadeJar, cache, api>>

CreateTokenResponse(c) ==
    \E resp \in TokenResponses(req[c]) : CreateTokenResponseWith(c, resp)

\* The list operations that take onlyTitles.
ListOps ==
    {"getPagesInCategory", "getArticleCategories", "search", "getUserContribs",
     "getImages", "getImagesFromArticle", "getImageUsage", "getRecentChanges",
     "getQueryPage", "getBackLinks"}

\* Entries of a list in a response, each written as the object it is, and
\* the title property of each.
ListEntries == {"{title:'A',pageid:1}", "{title:'B',pageid:2}"}

TitleOf(e) == IF e = "{title:'A',pageid:1}" THEN "A" ELSE "B"

\* Answers to a list query: a body with the list of entries.
ListResponses(r) ==
    IF r.type # "list" THEN {}
    ELSE CommonResponses
    \cup {[kind |-> "list", code |-> "-", token |-> NoToken, cookie |-> ck,
           entries |-> es] : ck \in BOOLEAN, es \in SeqsUpTo(ListEntries, 2)}

\* getList, lines 118-123.
GetList(array) == [i \in 1..Len(array) |-> TitleOf(array[i])]

\* What each list operation returns: getList of the entries when onlyTitles
\* is truthy, the entries otherwise; getUserContribs (line 433) calls getList
\* without returning its result.
ListValue(op, ot, es) ==
    IF Truthy(ot) /\ op # "getUserContribs" THEN GetList(es) ELSE es

ListResult(v, es) ==
    [type |-> "body", class |-> "-", code |-> "-", info |-> "-", attempt |-> 1,
     value |-> v, entries |-> es]

ListCallParams(op) ==
    [kind |-> "list", op |-> op, action |-> "query", method |-> "get",
     csrf |-> FALSE, ptoken |-> NoToken]

\* A list operation up to the await of its query.
ListCall(c, op, ot) ==
    /\ pc[c] = "idle"
    /\ jar' = jar
    /\ call' = [call EXCEPT ![c] = ListCallParams(op)]
    /\ params' = [params EXCEPT ![c] =
                    [args |-> [given |-> TRUE,
                               onlyTitles |-> Default(ot, "false")],
                     form |-> NoForm]]
    /\ SendPlain(c, "list", ListCallParams(op), "list")
    /\ lastOp' = NoSyncOp
    /\ UNCHANGED <<server, path, mwToken, facadeJar, result, obtained, cache,
                   api>>

ListResponseWith(c, resp) ==
    /\ pc[c] = "list"
    /\ resp \in ListResponses(req[c])
    /\ jar' = StoreCookies(jar, req[c], resp)
    /\ IF MwThrows(resp) THEN Fail(c, MwError(resp))
       ELSE Settle(c, ListResult(ListValue(call[c].op,
                                           params[c].args.onlyTitles,
                                           resp.entries),
                                 resp.entries))
    /\ lastOp' = NoSyncOp
    /\ UNCHANGED params
    /\ UNCHANGED <<server, path, facadeJar, cache, api>>

ListResponse(c) ==
    \E resp \in ListResponses(req[c]) : ListResponseWith(c, resp)

FacadeNext ==
    \/ \E c \in Callers, t \in PurgeInputs : PurgeCall(c, t)
    \/ \E c \in Callers, o \in {"edit", "prepend", "append"}, a \in EditArgs :
          EditCall(c, o, a)
    \/ \E c \in Callers, a \in ProtectArgs : ProtectCall(c, a)
    \/ \E c \in Callers : CreateAccountCall(c)
    \/ \E c \in Callers, op \in ListOps, ot \in {Undefined, "true", "false"} :
          ListCall(c, op, ot)
    \/ \E c \in Callers : GetTokenResponse(c)
    \/ \E c \in Callers : AttemptResponse(c)
    \/ \E c \in Callers : RefreshResponse(c)
    \/ \E c \in Callers : LegacyResponse(c)
    \/ \E c \in Callers : CreateTokenResponse(c)
    \/ \E c \in Callers : ListResponse(c)
    \/ \E c \in Callers : Return(c)

FacadeSpec == Init /\ [][FacadeNext]_vars


\* C23: the parameters purge hands to api.post: for a single string that
\* starts with 'Category:', the generator form with that string as gcmtitle;
\* otherwise pageids, the entries joined by '|', when the entries are
\* numbers, and titles, the entries joined by '|', when they are strings.
C23_PurgeParams ==
    \A c \in Callers :
        call[c].kind = "purge"
        => LET t == params[c].args.input
               f == params[c].form
               types == {t.items[i].type : i \in 1..Len(t.items)}
           IN IF ~t.isArray /\ t.items[1].type = "string"
                 /\ Head(t.items[1].text) = "Category:"
              THEN f = [action |-> "purge", generator |-> "categorymembers",
                        gcmtitle |-> t.items[1].text]
              ELSE /\ types = {"number"}
                      => f = [action |-> "purge",
                              pageids |-> Join(Texts(t.items), "|")]
                   /\ types = {"string"}
                      => f = [action |-> "purge",
                              titles |-> Join(Texts(t.items), "|")]

\* purge([1, 2]) is in flight with pageids '1|2'.
C23_Witness ==
    \E c \in Callers :
        /\ call[c].kind = "purge" /\ pc[c] = "attempt"
        /\ params[c].form = [action |-> "purge", pageids |-> <<"1", "|", "2">>]

\* C24: purge sends one POST and nothing else: no token retrieval before or
\* after it, and no token parameter in it.
C24_PurgeWithoutToken ==
    \A c \in Callers :
        call[c].kind = "purge"
        => /\ log[c] = <<"action">>
           /\ pc[c] \in {"attempt", "done"}
           /\ pc[c] = "attempt"
              => /\ req[c].method = "post"
                 /\ req[c].action = "purge"
                 /\ req[c].token = NoToken

\* A purge has resolved while a token is cached.
C24_Witness ==
    \E c \in Callers :
        /\ call[c].kind = "purge" /\ pc[c] = "done"
        /\ result[c].type = "body"
        /\ mwToken.kind = "tok"

\* C25: the protections parameter of protect's POST is the 'action=level'
\* pairs of the mapping in its iteration order, separated by '|', and the
\* POST that follows getToken carries the token getToken returned.
C25_ProtectParams ==
    \A c \in Callers :
        (call[c].kind = "write" /\ call[c].op = "protect"
         /\ params[c].args.given /\ pc[c] = "attempt")
        => LET m == params[c].args.protections
               q == params[c].form.protections
               n == Len(m)
           IN /\ Len(q) = (IF n = 0 THEN 0 ELSE 4 * n - 1)
              /\ \A i \in 1..n :
                    /\ q[4 * i - 3] = m[i][1]
                    /\ q[4 * i - 2] = "="
                    /\ q[4 * i - 1] = m[i][2]
                    /\ i < n => q[4 * i] = "|"
              /\ req[c].action = "protect"
              /\ req[c].method = "post"
              /\ req[c].token.kind = "tok"
              /\ log[c] = <<"getToken", "action">> => req[c].token = obtained[c]

\* protect({protections: {edit: 'sysop', move: 'sysop'}}) has its POST in
\* flight.
C25_Witness ==
    \E c \in Callers :
        /\ call[c].op = "protect" /\ pc[c] = "attempt"
        /\ log[c] = <<"getToken", "action">>
        /\ params[c].form.protections
             = <<"edit", "=", "sysop", "|", "move", "=", "sysop">>

C27_CreateAccountPosts ==
    \A c \in Callers :
        (call[c].kind = "createAccount" /\ pc[c] = "done"
         /\ log[c] = <<"createToken">>)
        => result[c] \in {MwError(r) : r \in CommonResponses}

\* C28: a list operation resolves with the titles of the entries of the
\* response, in order, when onlyTitles is true, and with the entries when it
\* is false.
C28_OnlyTitles ==
    \A c \in Callers :
        (call[c].kind = "list" /\ pc[c] = "done" /\ result[c].type = "body")
        => LET es == result[c].entries
           IN IF params[c].args.onlyTitles = "true"
              THEN /\ Len(result[c].value) = Len(es)
                   /\ \A i \in 1..Len(es) :
                         result[c].value[i] = TitleOf(es[i])
              ELSE result[c].value = es

\* ------------------------------------------------------------------------
\* The cached token and the refresh (src/src/API.js lines 42-81)
\* ------------------------------------------------------------------------

\* C31: in every reachable state the cached token is the unset sentinel or
\* a token value that the backend returned; it is never an absent value.
C31_CachedTokenIsServerValue ==
    \/ mwToken = Unset
    \/ /\ mwToken.kind = "tok"
       /\ mwToken \in Issued([server |-> mwToken.server, path |-> mwToken.path])

\* C35: when logout() has run while a refresh was in flight, the cached token
\* is unset at the moment that refresh is over.
C35_LogoutDuringRefresh ==
    [][\A c \in Callers :
          (/\ lastOp.name = "logout"
           /\ pc[c] \in {"refresh", "legacy"}
           /\ pc'[c] \notin {"refresh", "legacy"})
          => mwToken' = Unset]_vars

\* C37: a call dispatched without the csrf flag is never replayed and starts
\* no refresh, and a step that handles the answer to one of its requests
\* leaves the cached token as it is.
C37_NoCsrfNoReplay ==
    [][\A c \in Callers :
          (call[c].kind # "none" /\ ~call[c].csrf)
          => /\ Attempts(c)' <= 1
             /\ Refreshes(c)' = 0
             /\ (pc[c] \in InFlight /\ req'[c] # req[c]
                 => mwToken' = mwToken)]_vars

\* C32: when the standard retrieval of a refresh is answered with a body, the
\* legacy retrieval is the next request exactly when that body has no csrf
\* token, and no other step issues a legacy retrieval; when the legacy
\* retrieval is answered with a page entry, the cached token becomes the
\* edit token of that entry.
C32_LegacyFallback ==
    [][\A c \in Callers :
          /\ pc[c] = "refresh"
             => \A resp \in TokenResponses(req[c]) :
                   (~MwThrows(resp) /\ RefreshResponseWith(c, resp))
                   => ((pc'[c] = "legacy" /\ req'[c].type = "legacy"
                        /\ log'[c] = Logged(log[c], "legacy"))
                       <=> resp.kind # "tokens")
          /\ (req'[c].type = "legacy" /\ req'[c] # req[c])
             => \E resp \in TokenResponses(req[c]) :
                   resp.kind = "notokens" /\ RefreshResponseWith(c, resp)
          /\ pc[c] = "legacy"
             => \A resp \in LegacyResponses(req[c]) :
                   (resp.kind = "pages" /\ LegacyResponseWith(c, resp))
                   => mwToken' = resp.token]_vars

C32_Witness ==
    \E c \in Callers :
        /\ pc[c] = "attempt"
        /\ DispatchLog(c) = <<"action", "refresh", "legacy", "action">>
        /\ mwToken = Tok("wikiB", "/wiki", 2)
        /\ req[c].token = mwToken


\* ------------------------------------------------------------------------
\* Dispatches with caller-supplied format parameters (src/src/API.js)
\* ------------------------------------------------------------------------

\* Values a caller passes as format / formatversion, Undefined when it
\* passes none.
Formats == {Undefined, "xml"}

FormatVersions == {Undefined, "1"}

\* A parameter of the caller's object: absent when not passed.
Param(k, v) == IF v = Undefined THEN [x \in {} |-> x] ELSE k :> v

\* The URL of line 44 as the sequence of its pieces.
ApiUrl(s, p) == <<s, p, "/api.php">>

\* API.get(params, csrf) / API.post(params, csrf) with format parameters
\* among params, up to the await of line 44.  The URL of this first attempt
\* is kept beside the arguments.
DispatchCall(c, m, cs, f, fv) ==
    /\ pc[c] = "idle"
    /\ jar' = jar
    /\ LET cl == [kind |-> "api", op |-> "-", action |-> "act", method |-> m,
                  csrf |-> cs, ptoken |-> NoToken]
                 @@ Param("format", f) @@ Param("formatversion", fv)
       IN /\ call' = [call EXCEPT ![c] = cl]
          /\ SendAction(c, cl, mwToken)
    /\ params' = [params EXCEPT ![c] =
                    [args |-> [given |-> TRUE, format |-> f,
                               formatversion |-> fv],
                     form |-> [action |-> "act", url |-> ApiUrl(server, path)]]]
    /\ lastOp' = NoSyncOp
    /\ UNCHANGED <<server, path, mwToken, facadeJar, result, obtained, cache,
                   api>>

DispatchNext ==
    \/ \E c \in Callers, m \in {"get", "post"}, cs \in BOOLEAN, f \in Formats,
          fv \in FormatVersions : DispatchCall(c, m, cs, f, fv)
    \/ \E c \in Callers : AttemptResponse(c)
    \/ \E c \in Callers : RefreshResponse(c)
    \/ \E c \in Callers : LegacyResponse(c)
    \/ \E c \in Callers : Return(c)
    \/ \E w \in Wikis : SetServer(w[1], w[2])
    \/ Logout

DispatchSpec == Init /\ [][DispatchNext]_vars

\* C34: every request of a get / post dispatch that is in flight, token
\* retrievals and replays included, carries format=json and formatversion=2,
\* whatever format parameters the caller supplied.
C34_MandatoryFormat ==
    \A c \in Callers :
        req[c].type # "none"
        => /\ req[c].format = "json"
           /\ req[c].formatversion = "2"

\* A replay of a call that was made with format=xml and formatversion=1.
C34_Witness ==
    \E c \in Callers :
        /\ pc[c] = "attempt" /\ Attempts(c) = 2
        /\ "format" \in DOMAIN call[c] /\ call[c].format = "xml"
        /\ "formatversion" \in DOMAIN call[c] /\ call[c].formatversion = "1"
        /\ req[c].format = "json"

\* C36: a replay in flight was sent to the URL the first attempt of its
\* dispatch was sent to.
C36_ReplaySameEndpoint ==
    \A c \in Callers :
        (pc[c] = "attempt" /\ Attempts(c) >= 2)
        => ApiUrl(req[c].server, req[c].path) = params[c].form.url


\* C33: the credentials are submitted only in the step that handles the
\* answer to the login-token retrieval, as the second request of login(),
\* and with the logintoken of that answer; when the answer has no tokens,
\* login() fails with FAILED_LOGIN in that step and submits nothing.
C33_LoginTokenFirst ==
    [][\A c \in Procs :
          /\ (req'[c].type = "login" /\ req'[c] # req[c])
             => /\ pc[c] = "loginToken"
                /\ log'[c] = <<"loginToken", "login">>
          /\ pc[c] = "loginToken"
             => \A resp \in LoginTokenResponses(req[c]) :
                   (~MwThrows(resp) /\ LoginTokenResponseWith(c, resp))
                   => /\ resp.kind = "tokens"
                         => /\ req'[c].type = "login"
                            /\ params'[c].form.action = "login"
                            /\ params'[c].form.lgtoken = resp.token
                      /\ resp.kind = "notokens"
                         => /\ pc'[c] = "done"
                            /\ result'[c].type = "error"
                            /\ result'[c].code = "FAILED_LOGIN"
                            /\ req'[c] = NoReq
                            /\ log'[c] = log[c]]_vars

C33_Witness ==
    \E c \in Callers :
        /\ call[c].kind = "login"
        /\ pc[c] = "login"
        /\ log[c] = <<"loginToken", "login">>
        /\ params[c].form.lgtoken = Tok(server, path, 1)


\* C38: when the chain that the constructor started has failed, the catch
\* clause of line 66 has logged the error, and the identity cache is written
\* only when both the login request and the who-am-I request were answered
\* with a body.  The catch clause encloses the synchronous call of login()
\* only: login() is an async function, which returns its promise without
\* throwing, and the then-callbacks of lines 60-65 are given no rejection
\* handler, so no step of the chain appends "console.log" to its history.
C38_PrimingFailureReported ==
    /\ (pc["ctor"] = "done" /\ result["ctor"].type = "error")
       => (log["ctor"] # <<>>
           /\ log["ctor"][Len(log["ctor"])] = "console.log")
    /\ cache # "empty"
       => /\ log["ctor"] = <<"loginToken", "login", "whoami">>
          /\ pc["ctor"] = "done"
          /\ result["ctor"].type = "body"


\* C39: the forum identifier in the URL of the request of post() is the
\* forumId of its JSON body.
C39_ForumIdMatches ==
    \A c \in Callers :
        (call[c].kind = "disc" /\ call[c].op = "post" /\ pc[c] = "disc")
        => params[c].form.url
             = DiscussionsBaseUrl
               \o <<"/forums/", params[c].form.body.forumId, "/threads">>

====
